---- MODULE Spec2Model ----
(***************************************************************************)
(* Model of the SilverLink ESP32 controller firmware (the state-sync       *)
(* variant, SilverLink-Controller_ESP32_NOLCD.ino): the run loop, the      *)
(* connection/mode state machine, the actuator registry with its           *)
(* persisted states, and the command / state-sync handlers.                *)
(*                                                                         *)
(* Time is the millisecond clock millis(), an unsigned 32-bit value,        *)
(* counted in units of 8 ms.                                               *)
(* Handlers are functions from a snapshot of the globals (a record) to the *)
(* globals after the handler; an action commits one handler's result.      *)
(***************************************************************************)
EXTENDS Integers, Sequences, FiniteSets, TLC

VARIABLES
  mode,                 \* StatusMode mode
  offlineUntil,         \* unsigned long offlineUntil
  lastMoistureCheck,    \* unsigned long lastMoistureCheck
  runtimeLoaded,        \* bool runtimeLoaded
  serverFailCount,      \* int serverFailCount
  wifiFailCount,        \* int wifiFailCount
  lastHeartbeat,        \* unsigned long lastHeartbeat
  lastMemoryCheck,      \* unsigned long lastMemoryCheck
  lastStatusReport,     \* unsigned long lastStatusReport
  consecutiveErrors,    \* int consecutiveErrors
  lastStateSyncRequest, \* unsigned long lastStateSyncRequest
  pendingStateSync,     \* bool pendingStateSync (process-wide)
  lastStateSync,        \* unsigned long lastStateSync
  lastSend,             \* static unsigned long lastSend of sendSensorData
  sensors,              \* std::vector<Sensor>
  aktuators,            \* std::vector<Aktuator>
  now,                  \* millis()
  wifiUp,               \* WiFi.status() == WL_CONNECTED
  wsBegun,              \* webSocket.begin() was called by setup()
  wsConnected,          \* webSocket.isConnected()
  gpio,                 \* output level of every GPIO pin
  fsStates,             \* /actuator_states.json : pin -> bool
  fsRuntime,            \* /config_runtime.json : <<>> or <<payload>>
  pc,                   \* position of the run loop
  sent,                 \* frames handed to webSocket.sendTXT by the last step
  gpioLog,              \* digitalWrite calls of the last step, in order
  fsLog,                \* /actuator_states.json writes of the last step
  authed,               \* auth_success was received on the open session
  lastIn,               \* the input the last step consumed
  sendOk,               \* result of webSocket.sendTXT during the step
  fsOk,                 \* LittleFS.open(..., "w") succeeds during the step
  modeSince,            \* the clock when mode last changed (history)
  syncRequestedAt       \* the clock when request_state_sync was last sent
                        \* since boot, -1 before the first (history)

vars == <<mode, offlineUntil, lastMoistureCheck, runtimeLoaded, serverFailCount,
          wifiFailCount, lastHeartbeat, lastMemoryCheck, lastStatusReport,
          consecutiveErrors, lastStateSyncRequest, pendingStateSync,
          lastStateSync, lastSend, sensors, aktuators, now, wifiUp, wsBegun,
          wsConnected, gpio, fsStates, fsRuntime, pc, sent, gpioLog, fsLog,
          authed, lastIn, sendOk, fsOk, modeSince, syncRequestedAt>>

\* ------------------------------------------------------------ constants

\* The clock is counted in units of 8 ms: every interval of the program is a
\* multiple of 8 ms, and the 32-bit millisecond clock wraps at 2^32 ms, which
\* is 2^29 units.
Wrap == 2^29
Ms(t) == t \div 8

MaxPin == 39
moistureInterval == Ms(5 * 60 * 1000)
heartbeatInterval == Ms(30000)
maxConsecutiveErrors == 5
stateSyncRequestInterval == Ms(60000)
maxServerFail == 5
wifiOfflineMs == Ms(30 * 60 * 1000)
serverOfflineMs == Ms(6 * 60 * 60 * 1000)
sendInterval == Ms(5000)
memoryInterval == Ms(60000)
statusInterval == Ms(120000)
heapWarn == 20000
heapCritical == 10000
pumpMs == Ms(10000)
authSyncDelay == Ms(2000)

\* bounds of the model
MaxFail == 6
MaxNow == 2925000
MaxFine == 2
MaxTuples == 2
MaxCmdTicks == 3
MaxAutoTicks == 3
MaxEntries == 2
MaxLoadTicks == 2
MaxGateTicks == 3
MaxSessionTicks == 5
MaxTimerTicks == 2
MaxRetryTicks == 6
MaxStoreTicks == 2
MaxFrameTicks == 5
MaxBeatTicks == 4
MaxEntryTicks == 1
MaxReloadTicks == 2
MaxDropTicks == 5
MaxWrapTicks == 4

\* unsigned 32-bit arithmetic of the millisecond clock
Add32(a, b) == (a + b) % Wrap
Sub32(a, b) == (a - b + Wrap) % Wrap

\* ------------------------------------------------------------ snapshot

Globals ==
  [mode |-> mode, offlineUntil |-> offlineUntil,
   lastMoistureCheck |-> lastMoistureCheck, runtimeLoaded |-> runtimeLoaded,
   serverFailCount |-> serverFailCount, wifiFailCount |-> wifiFailCount,
   lastHeartbeat |-> lastHeartbeat, lastMemoryCheck |-> lastMemoryCheck,
   lastStatusReport |-> lastStatusReport,
   consecutiveErrors |-> consecutiveErrors,
   lastStateSyncRequest |-> lastStateSyncRequest,
   pendingStateSync |-> pendingStateSync, lastStateSync |-> lastStateSync,
   lastSend |-> lastSend, sensors |-> sensors, aktuators |-> aktuators,
   now |-> now, wifiUp |-> wifiUp, wsBegun |-> wsBegun,
   wsConnected |-> wsConnected, gpio |-> gpio, fsStates |-> fsStates,
   fsRuntime |-> fsRuntime, pc |-> pc, sent |-> sent, gpioLog |-> gpioLog,
   fsLog |-> fsLog, authed |-> authed, lastIn |-> lastIn,
   sendOk |-> sendOk, fsOk |-> fsOk, modeSince |-> modeSince,
   syncRequestedAt |-> syncRequestedAt]

Commit(G) ==
  /\ mode' = G.mode
  /\ offlineUntil' = G.offlineUntil
  /\ lastMoistureCheck' = G.lastMoistureCheck
  /\ runtimeLoaded' = G.runtimeLoaded
  /\ serverFailCount' = G.serverFailCount
  /\ wifiFailCount' = G.wifiFailCount
  /\ lastHeartbeat' = G.lastHeartbeat
  /\ lastMemoryCheck' = G.lastMemoryCheck
  /\ lastStatusReport' = G.lastStatusReport
  /\ consecutiveErrors' = G.consecutiveErrors
  /\ lastStateSyncRequest' = G.lastStateSyncRequest
  /\ pendingStateSync' = G.pendingStateSync
  /\ lastStateSync' = G.lastStateSync
  /\ lastSend' = G.lastSend
  /\ sensors' = G.sensors
  /\ aktuators' = G.aktuators
  /\ now' = G.now
  /\ wifiUp' = G.wifiUp
  /\ wsBegun' = G.wsBegun
  /\ wsConnected' = G.wsConnected
  /\ gpio' = G.gpio
  /\ fsStates' = G.fsStates
  /\ fsRuntime' = G.fsRuntime
  /\ pc' = G.pc
  /\ sent' = G.sent
  /\ gpioLog' = G.gpioLog
  /\ fsLog' = G.fsLog
  /\ authed' = G.authed
  /\ lastIn' = G.lastIn
  /\ sendOk' = G.sendOk
  /\ fsOk' = G.fsOk
  /\ modeSince' = G.modeSince
  /\ syncRequestedAt' = G.syncRequestedAt

\* The globals at the start of a step that consumes input `in`, with the
\* environment's answers for this step.
Begin(in, sOk, fOk) ==
  [Globals EXCEPT !.sent = <<>>, !.gpioLog = <<>>, !.fsLog = <<>>,
                  !.lastIn = in, !.sendOk = sOk, !.fsOk = fOk]

\* ------------------------------------------------------------ drivers

\* the device token of the provisioning file
token == "device-token"

digitalWrite(G, pin, level) ==
  [G EXCEPT !.gpio[pin] = level, !.gpioLog = Append(@, <<pin, level>>)]

digitalRead(G, pin) == G.gpio[pin]

sendTXT(G, frame) == [G EXCEPT !.sent = Append(@, frame)]

\* index of the first actuator with this pin, 0 when there is none
RECURSIVE FindFrom(_, _, _)
FindFrom(akts, pin, i) ==
  IF i > Len(akts) THEN 0
  ELSE IF akts[i].pin = pin THEN i
  ELSE FindFrom(akts, pin, i + 1)

FindAktuator(akts, pin) == FindFrom(akts, pin, 1)

\* ------------------------------------------------------------ persistence

saveActuatorState(G, pin, state) ==
  IF G.fsOk
  THEN [G EXCEPT !.fsStates = (pin :> state) @@ @,
                 !.fsLog = Append(@, <<pin, state>>)]
  ELSE G


\* every registry entry whose pin has a saved state takes it (state and pin)
RECURSIVE ApplySaved(_, _)
ApplySaved(G, i) ==
  IF i > Len(G.aktuators) THEN G
  ELSE LET pin == G.aktuators[i].pin IN
       IF pin \in DOMAIN G.fsStates
       THEN ApplySaved(
              digitalWrite([G EXCEPT !.aktuators[i].state = G.fsStates[pin]],
                           pin, G.fsStates[pin]),
              i + 1)
       ELSE ApplySaved(G, i + 1)

\* loadActuatorStates that also drops the saved states of pins that are not
\* in the registry
loadActuatorStatesPrune(G) ==
  IF DOMAIN G.fsStates = {} THEN G
  ELSE [ApplySaved(G, 1) EXCEPT !.fsStates =
          [p \in {q \in DOMAIN G.fsStates : FindAktuator(G.aktuators, q) # 0}
             |-> G.fsStates[p]]]

loadActuatorStates(G) ==
  IF DOMAIN G.fsStates = {} THEN G ELSE ApplySaved(G, 1)

\* a JSON member with the default ArduinoJson gives when it is missing
Get(obj, key, default) == IF key \in DOMAIN obj THEN obj[key] ELSE default

\* the sensors loop with one entry for a dht11 instead of two
RECURSIVE LoadSensorsOneKind(_, _)
LoadSensorsOneKind(G, arr) ==
  IF arr = <<>> THEN G
  ELSE LET s == Head(arr)
           type == Get(s, "type", "null")
           pin == Get(s, "pin", 0)
           threshold == Get(s, "threshold", -1)
           G1 == IF pin < 0 \/ pin > MaxPin THEN G
                 ELSE IF type = "dht11"
                 THEN [G EXCEPT !.sensors = Append(@,
                         [type |-> "dht_temperature", pin |-> pin, threshold |-> -1])]
                 ELSE [G EXCEPT !.sensors =
                        Append(@, [type |-> type, pin |-> pin, threshold |-> threshold])]
       IN LoadSensorsOneKind(G1, Tail(arr))

RECURSIVE LoadSensors(_, _)
LoadSensors(G, arr) ==
  IF arr = <<>> THEN G
  ELSE LET s == Head(arr)
           type == Get(s, "type", "null")
           pin == Get(s, "pin", 0)
           threshold == Get(s, "threshold", -1)
           G1 == IF pin < 0 \/ pin > MaxPin THEN G
                 ELSE IF type = "dht11"
                 THEN [G EXCEPT !.sensors = @ \o
                        << [type |-> "dht_temperature", pin |-> pin, threshold |-> -1],
                           [type |-> "dht_humidity", pin |-> pin, threshold |-> -1] >>]
                 ELSE [G EXCEPT !.sensors =
                        Append(@, [type |-> type, pin |-> pin, threshold |-> threshold])]
       IN LoadSensors(G1, Tail(arr))

RECURSIVE LoadAktuators(_, _)
LoadAktuators(G, arr) ==
  IF arr = <<>> THEN G
  ELSE LET a == Head(arr)
           function == Get(a, "function", "null")
           pin == Get(a, "pin", 0)
           currentState == Get(a, "current_state", FALSE)
           G1 == IF pin < 0 \/ pin > MaxPin THEN G
                 ELSE digitalWrite(
                        [G EXCEPT !.aktuators =
                           Append(@, [function |-> function, pin |-> pin,
                                      state |-> currentState,
                                      pendingStateSync |-> TRUE])],
                        pin, currentState)
       IN LoadAktuators(G1, Tail(arr))

\* bool loadRuntimeConfig(): the result, and the globals after it
loadRuntimeConfigOk(G) == G.fsRuntime # <<>> /\ G.fsRuntime[1].parses

\* loadRuntimeConfig without sensors.clear() and aktuators.clear()
loadRuntimeConfigAppend(G) ==
  IF ~loadRuntimeConfigOk(G) THEN G
  ELSE LET doc == G.fsRuntime[1]
           G1 == LoadSensors(G, Get(doc, "sensors", <<>>))
           G2 == LoadAktuators(G1, Get(doc, "aktuators", <<>>))
           G3 == loadActuatorStates(G2)
       IN [G3 EXCEPT !.runtimeLoaded = TRUE, !.pendingStateSync = TRUE]

\* loadRuntimeConfig with the registries cleared before the file is examined
loadRuntimeConfigClearFirst(G) ==
  LET G0 == [G EXCEPT !.sensors = <<>>, !.aktuators = <<>>] IN
  IF ~loadRuntimeConfigOk(G) THEN G0
  ELSE LET doc == G.fsRuntime[1]
           G1 == LoadSensors(G0, Get(doc, "sensors", <<>>))
           G2 == LoadAktuators(G1, Get(doc, "aktuators", <<>>))
           G3 == loadActuatorStates(G2)
       IN [G3 EXCEPT !.runtimeLoaded = TRUE, !.pendingStateSync = TRUE]

loadRuntimeConfig(G) ==
  IF ~loadRuntimeConfigOk(G) THEN G
  ELSE LET doc == G.fsRuntime[1]
           G0 == [G EXCEPT !.sensors = <<>>, !.aktuators = <<>>]
           G1 == LoadSensors(G0, Get(doc, "sensors", <<>>))
           G2 == LoadAktuators(G1, Get(doc, "aktuators", <<>>))
           G3 == loadActuatorStates(G2)
       IN [G3 EXCEPT !.runtimeLoaded = TRUE, !.pendingStateSync = TRUE]

saveRuntimeConfig(G, doc) ==
  IF G.fsOk THEN loadRuntimeConfig([G EXCEPT !.fsRuntime = <<doc>>]) ELSE G

\* ------------------------------------------------------------ state sync

requestStateSync(G) ==
  IF G.mode # "ONLINE" \/ ~G.wsConnected THEN G
  ELSE LET G1 == sendTXT(G, [event |-> "request_state_sync"]) IN
       IF G.sendOk THEN [G1 EXCEPT !.lastStateSyncRequest = G.now] ELSE G1

\* confirmActuatorState without the test mode != ONLINE
confirmActuatorStateAnyMode(G, pin, state, success) ==
  IF ~G.wsConnected THEN G
  ELSE sendTXT(G, [event |-> "actuator_state_confirm", pin |-> pin,
                   state |-> state, success |-> success])

confirmActuatorState(G, pin, state, success) ==
  IF G.mode # "ONLINE" \/ ~G.wsConnected THEN G
  ELSE sendTXT(G, [event |-> "actuator_state_confirm", pin |-> pin,
                   state |-> state, success |-> success])

\* the loop body without the assignment akt.state = expectedState
ApplyTupleStale(G, t) ==
  LET pin == Get(t, "pin", 0)
      expectedState == Get(t, "state", FALSE)
      i == FindAktuator(G.aktuators, pin)
  IN IF i = 0 THEN G
     ELSE LET currentState == digitalRead(G, pin)
              G1 == IF currentState # expectedState
                    THEN confirmActuatorState(
                           saveActuatorState(digitalWrite(G, pin, expectedState),
                                             pin, expectedState),
                           pin, expectedState, TRUE)
                    ELSE confirmActuatorState(G, pin, expectedState, TRUE)
          IN [G1 EXCEPT !.aktuators[i].pendingStateSync = FALSE]

\* one tuple of the payload: the body of the outer loop
ApplyTuple(G, t) ==
  LET pin == Get(t, "pin", 0)
      expectedState == Get(t, "state", FALSE)
      i == FindAktuator(G.aktuators, pin)
  IN IF i = 0 THEN G
     ELSE LET currentState == digitalRead(G, pin)
              G1 == IF currentState # expectedState
                    THEN confirmActuatorState(
                           saveActuatorState(
                             [digitalWrite(G, pin, expectedState)
                                EXCEPT !.aktuators[i].state = expectedState],
                             pin, expectedState),
                           pin, expectedState, TRUE)
                    ELSE confirmActuatorState(G, pin, expectedState, TRUE)
          IN [G1 EXCEPT !.aktuators[i].pendingStateSync = FALSE]

RECURSIVE ApplyTuples(_, _)
ApplyTuples(G, tuples) ==
  IF tuples = <<>> THEN G
  ELSE ApplyTuples(ApplyTuple(G, Head(tuples)), Tail(tuples))

applyActuatorStateSync(G, actuators) ==
  [ApplyTuples(G, actuators) EXCEPT !.pendingStateSync = FALSE,
                                    !.lastStateSync = G.now]

HasUnsynced(akts) == \E i \in 1..Len(akts) : akts[i].pendingStateSync

\* checkPendingStateSync without the trigger on the process-wide flag
checkPendingStateSyncFlagless(G) ==
  IF G.mode # "ONLINE" \/ ~G.runtimeLoaded THEN G
  ELSE IF HasUnsynced(G.aktuators) /\
          Sub32(G.now, G.lastStateSync) >= stateSyncRequestInterval
       THEN requestStateSync(G) ELSE G

checkPendingStateSync(G) ==
  IF G.mode # "ONLINE" \/ ~G.runtimeLoaded THEN G
  ELSE LET G1 == IF G.pendingStateSync /\
                    Sub32(G.now, G.lastStateSyncRequest) >= stateSyncRequestInterval
                 THEN requestStateSync(G) ELSE G
       IN IF HasUnsynced(G1.aktuators) /\
             Sub32(G1.now, G1.lastStateSync) >= stateSyncRequestInterval
          THEN requestStateSync(G1) ELSE G1

\* ------------------------------------------------------------ commands

\* set_aktuator without the line that clears the entry's pendingStateSync
SetAktuatorKeepPending(G, doc) ==
  LET pin == Get(doc, "pin", 0)
      state == Get(doc, "state", FALSE)
      requireConfirmation == Get(doc, "require_confirmation", FALSE)
      i == FindAktuator(G.aktuators, pin)
  IN IF pin < 0 \/ pin > MaxPin
     THEN IF requireConfirmation
          THEN confirmActuatorState(G, pin, state, FALSE) ELSE G
     ELSE IF i # 0
     THEN LET G1 == saveActuatorState(
                      [digitalWrite(G, pin, state)
                         EXCEPT !.aktuators[i].state = state],
                      pin, state)
          IN IF requireConfirmation
             THEN confirmActuatorState(G1, pin, state, TRUE) ELSE G1
     ELSE IF requireConfirmation
          THEN confirmActuatorState(G, pin, state, FALSE) ELSE G

SetAktuator(G, doc) ==
  LET pin == Get(doc, "pin", 0)
      state == Get(doc, "state", FALSE)
      requireConfirmation == Get(doc, "require_confirmation", FALSE)
      i == FindAktuator(G.aktuators, pin)
  IN IF pin < 0 \/ pin > MaxPin
     THEN IF requireConfirmation
          THEN confirmActuatorState(G, pin, state, FALSE) ELSE G
     ELSE IF i # 0
     THEN LET G1 == saveActuatorState(
                      [digitalWrite(G, pin, state)
                         EXCEPT !.aktuators[i].state = state,
                                !.aktuators[i].pendingStateSync = FALSE],
                      pin, state)
          IN IF requireConfirmation
             THEN confirmActuatorState(G1, pin, state, TRUE) ELSE G1
     ELSE IF requireConfirmation
          THEN confirmActuatorState(G, pin, state, FALSE) ELSE G

\* handleServerCommand with the flag set only after a runtime_config push
\* that was stored
handleServerCommandStoredOnly(G, doc) ==
  IF ~doc.parses THEN G
  ELSE LET event == Get(doc, "event", "null") IN
    CASE event = "set_aktuator" -> SetAktuator(G, doc)
      [] event = "runtime_config" -> saveRuntimeConfig(G, doc)
      [] event = "refresh_config" ->
           IF loadRuntimeConfigOk(G)
           THEN [loadRuntimeConfig(G) EXCEPT !.pendingStateSync = TRUE]
           ELSE loadRuntimeConfig(G)
      [] event = "auth_success" ->
           [G EXCEPT !.pendingStateSync = TRUE,
                     !.lastStateSyncRequest =
                        Add32(Sub32(G.now, stateSyncRequestInterval), authSyncDelay),
                     !.authed = TRUE]
      [] event = "actuator_state_sync" ->
           IF "actuators" \in DOMAIN doc
           THEN applyActuatorStateSync(G, doc.actuators) ELSE G
      [] OTHER -> G

handleServerCommand(G, doc) ==
  IF ~doc.parses THEN G
  ELSE LET event == Get(doc, "event", "null") IN
    CASE event = "set_aktuator" -> SetAktuator(G, doc)
      [] event = "runtime_config" ->
           [saveRuntimeConfig(G, doc) EXCEPT !.pendingStateSync = TRUE]
      [] event = "refresh_config" ->
           IF loadRuntimeConfigOk(G)
           THEN [loadRuntimeConfig(G) EXCEPT !.pendingStateSync = TRUE]
           ELSE loadRuntimeConfig(G)
      [] event = "auth_success" ->
           [G EXCEPT !.pendingStateSync = TRUE,
                     !.lastStateSyncRequest =
                        Add32(Sub32(G.now, stateSyncRequestInterval), authSyncDelay),
                     !.authed = TRUE]
      [] event = "actuator_state_sync" ->
           IF "actuators" \in DOMAIN doc
           THEN applyActuatorStateSync(G, doc.actuators) ELSE G
      [] OTHER -> G


\* ------------------------------------------------------------ channel events

MarkAllPending(G) ==
  [G EXCEPT !.aktuators =
              [i \in 1..Len(G.aktuators) |->
                 [G.aktuators[i] EXCEPT !.pendingStateSync = TRUE]],
            !.pendingStateSync = TRUE]

\* the CONNECTED case without the line offlineUntil = 0
OnConnectedKeepDeadline(G) ==
  sendTXT([G EXCEPT !.serverFailCount = 0, !.consecutiveErrors = 0,
                    !.mode = "ONLINE"],
          [event |-> "auth", token |-> token])

\* the CONNECTED case with an auth frame that lacks the token
OnConnectedNoToken(G) ==
  sendTXT([G EXCEPT !.serverFailCount = 0, !.consecutiveErrors = 0,
                    !.mode = "ONLINE", !.offlineUntil = 0],
          [event |-> "auth"])

OnConnected(G) ==
  sendTXT([G EXCEPT !.serverFailCount = 0, !.consecutiveErrors = 0,
                    !.mode = "ONLINE", !.offlineUntil = 0],
          [event |-> "auth", token |-> token])

OnDisconnected(G) ==
  LET G1 == MarkAllPending(
              [G EXCEPT !.serverFailCount = @ + 1, !.consecutiveErrors = @ + 1])
  IN IF G1.serverFailCount >= maxServerFail
     THEN [G1 EXCEPT !.mode = "OFFLINE_SERVER",
                     !.offlineUntil = Add32(G.now, serverOfflineMs)]
     ELSE G1

OnText(G, doc) == handleServerCommand([G EXCEPT !.consecutiveErrors = 0], doc)

OnError(G) == [G EXCEPT !.consecutiveErrors = @ + 1]

\* webSocketEvent without the payload size test
webSocketEventAnyLength(G, ev) ==
  CASE ev.kind = "CONNECTED" -> OnConnected(G)
    [] ev.kind = "DISCONNECTED" -> OnDisconnected(G)
    [] ev.kind = "TEXT" -> OnText(G, ev.doc)
    [] ev.kind = "ERROR" -> OnError(G)
    [] OTHER -> G

webSocketEvent(G, ev) ==
  IF ev.oversize THEN G
  ELSE CASE ev.kind = "CONNECTED" -> OnConnected(G)
         [] ev.kind = "DISCONNECTED" -> OnDisconnected(G)
         [] ev.kind = "TEXT" -> OnText(G, ev.doc)
         [] ev.kind = "ERROR" -> OnError(G)
         [] OTHER -> G

\* what the WebSockets client itself does before it calls the handler
ClientState(G, ev) ==
  CASE ev.kind = "CONNECTED" -> [G EXCEPT !.wsConnected = TRUE, !.authed = FALSE]
    [] ev.kind = "DISCONNECTED" -> [G EXCEPT !.wsConnected = FALSE, !.authed = FALSE]
    [] OTHER -> G

\* ------------------------------------------------------------ run loop

Restart(G) == [G EXCEPT !.pc = "restart"]

basicSystemMonitoring(G, freeHeap) ==
  LET memDue == Sub32(G.now, G.lastMemoryCheck) >= memoryInterval
      repDue == Sub32(G.now, G.lastStatusReport) >= statusInterval
  IN IF memDue /\ freeHeap < heapWarn /\ freeHeap < heapCritical
     THEN Restart(G)
     ELSE LET G1 == IF memDue THEN [G EXCEPT !.lastMemoryCheck = G.now] ELSE G IN
          IF repDue /\ G1.consecutiveErrors >= maxConsecutiveErrors
          THEN Restart(G1)
          ELSE LET G2 == IF repDue THEN [G1 EXCEPT !.lastStatusReport = G.now]
                         ELSE G1
               IN [checkPendingStateSync(G2) EXCEPT !.pc = "ws"]

Heartbeat(G) ==
  IF G.wsConnected
  THEN LET G1 == sendTXT(G, [event |-> "heartbeat",
                             pending_state_sync |-> G.pendingStateSync])
       IN IF G.sendOk THEN [G1 EXCEPT !.consecutiveErrors = 0]
          ELSE [G1 EXCEPT !.consecutiveErrors = @ + 1]
  ELSE MarkAllPending([G EXCEPT !.mode = "OFFLINE_SERVER",
                                !.serverFailCount = @ + 1])

\* monitorConnection without the test mode == ONLINE on a lost link
monitorConnectionRearm(G) ==
  IF ~G.wifiUp
  THEN MarkAllPending([G EXCEPT !.wifiFailCount = @ + 1,
                                !.mode = "OFFLINE_WIFI",
                                !.offlineUntil = Add32(G.now, wifiOfflineMs)])
  ELSE LET G1 == IF G.wifiFailCount > 0 THEN [G EXCEPT !.wifiFailCount = 0] ELSE G
       IN IF G1.mode = "ONLINE" /\
             Sub32(G1.now, G1.lastHeartbeat) >= heartbeatInterval
          THEN [Heartbeat(G1) EXCEPT !.lastHeartbeat = G.now]
          ELSE G1

monitorConnection(G) ==
  IF ~G.wifiUp
  THEN IF G.mode = "ONLINE"
       THEN MarkAllPending([G EXCEPT !.wifiFailCount = @ + 1,
                                     !.mode = "OFFLINE_WIFI",
                                     !.offlineUntil = Add32(G.now, wifiOfflineMs)])
       ELSE G
  ELSE LET G1 == IF G.wifiFailCount > 0 THEN [G EXCEPT !.wifiFailCount = 0] ELSE G
       IN IF G1.mode = "ONLINE" /\
             Sub32(G1.now, G1.lastHeartbeat) >= heartbeatInterval
          THEN [Heartbeat(G1) EXCEPT !.lastHeartbeat = G.now]
          ELSE G1

\* the first actuator tagged pump, 0 when there is none
RECURSIVE FindPumpFrom(_, _)
FindPumpFrom(akts, i) ==
  IF i > Len(akts) THEN 0
  ELSE IF akts[i].function = "pump" THEN i
  ELSE FindPumpFrom(akts, i + 1)

\* the pump activation without the write that drives the pin LOW again
ActivatePumpStuckOn(G, i) ==
  LET pin == G.aktuators[i].pin
      G1 == saveActuatorState(
              [digitalWrite(G, pin, TRUE) EXCEPT !.aktuators[i].state = TRUE],
              pin, TRUE)
      G2 == [G1 EXCEPT !.now = Add32(@, pumpMs)]
  IN saveActuatorState([G2 EXCEPT !.aktuators[i].state = FALSE], pin, FALSE)

ActivatePump(G, i) ==
  LET pin == G.aktuators[i].pin
      G1 == saveActuatorState(
              [digitalWrite(G, pin, TRUE) EXCEPT !.aktuators[i].state = TRUE],
              pin, TRUE)
      G2 == [G1 EXCEPT !.now = Add32(@, pumpMs)]
  IN saveActuatorState(
       [digitalWrite(G2, pin, FALSE) EXCEPT !.aktuators[i].state = FALSE],
       pin, FALSE)

RECURSIVE OfflineSensors(_, _, _)
OfflineSensors(G, k, reading) ==
  IF k > Len(G.sensors) THEN G
  ELSE LET s == G.sensors[k]
           i == FindPumpFrom(G.aktuators, 1)
           G1 == IF s.type = "soil_moisture" /\ s.threshold > 0 /\
                    reading[s.pin] < s.threshold /\ i # 0
                 THEN ActivatePump(G, i) ELSE G
       IN OfflineSensors(G1, k + 1, reading)

\* checkOfflineMode with the periodic check placed before the deadline test
checkOfflineModeAutomationFirst(G, reading) ==
  IF G.mode = "ONLINE" THEN G
  ELSE LET G1 == IF Sub32(G.now, G.lastMoistureCheck) >= moistureInterval
                 THEN [OfflineSensors(G, 1, reading)
                         EXCEPT !.lastMoistureCheck = G.now]
                 ELSE G
       IN IF G.now >= G.offlineUntil /\ G.offlineUntil > 0 THEN Restart(G1)
          ELSE G1

checkOfflineMode(G, reading) ==
  IF G.mode = "ONLINE" THEN G
  ELSE IF G.now >= G.offlineUntil /\ G.offlineUntil > 0 THEN Restart(G)
  ELSE IF Sub32(G.now, G.lastMoistureCheck) >= moistureInterval
       THEN [OfflineSensors(G, 1, reading) EXCEPT !.lastMoistureCheck = G.now]
       ELSE G

ValidCount(G, dhtOk) ==
  Cardinality({k \in 1..Len(G.sensors) :
                 \/ G.sensors[k].type = "soil_moisture"
                 \/ /\ G.sensors[k].type \in {"dht_temperature", "dht_humidity"}
                    /\ dhtOk})

sendSensorData(G, dhtOk) ==
  IF G.mode # "ONLINE" \/ ~G.runtimeLoaded THEN G
  ELSE IF Sub32(G.now, G.lastSend) < sendInterval THEN G
  ELSE LET G1 == [G EXCEPT !.lastSend = G.now] IN
       IF ValidCount(G, dhtOk) = 0 \/ ~G.wsConnected THEN G1
       ELSE LET G2 == sendTXT(G1, [event |-> "sensor_data",
                                   count |-> ValidCount(G, dhtOk)])
            IN IF G.sendOk THEN [G2 EXCEPT !.consecutiveErrors = 0]
               ELSE [G2 EXCEPT !.consecutiveErrors = @ + 1]

\* setup() of a provisioned device
setup(G) ==
  IF G.wifiUp
  THEN [loadRuntimeConfig(G) EXCEPT !.wsBegun = TRUE, !.pc = "sysmon"]
  ELSE [G EXCEPT !.mode = "OFFLINE_WIFI",
                 !.offlineUntil = Add32(G.now, wifiOfflineMs),
                 !.wifiFailCount = @ + 1, !.pc = "sysmon"]


\* ------------------------------------------------------------ inputs

NoDoc == [parses |-> FALSE]
In(kind) == [kind |-> kind, oversize |-> FALSE, doc |-> NoDoc]
Text(doc) == [kind |-> "TEXT", oversize |-> FALSE, doc |-> doc]
Doc(event) == [parses |-> TRUE, event |-> event]

\* the moisture reading (percent) the probes give during an offline check
Sample(value) == [In("offline") EXCEPT !.doc = [parses |-> FALSE, value |-> value]]

\* a persisted topology: one armed moisture probe and a pump
CfgPump ==
  [parses |-> TRUE, event |-> "runtime_config",
   sensors |-> << [type |-> "soil_moisture", pin |-> 34, threshold |-> 30] >>,
   aktuators |-> << [function |-> "pump", pin |-> 5, current_state |-> FALSE] >>]

NoStates == [p \in {} |-> FALSE]

\* the events the WebSockets client can deliver in the current state
Events(Kinds, Docs) ==
  IF ~wsBegun THEN {}
  ELSE {In(k) : k \in {x \in Kinds \cap {"DISCONNECTED"} :
                        serverFailCount < MaxFail /\ consecutiveErrors < MaxFail}}
       \cup {In(k) : k \in {x \in Kinds \cap {"CONNECTED"} : ~wsConnected /\ wifiUp}}
       \cup {In(k) : k \in {x \in Kinds \cap {"ERROR"} : consecutiveErrors < MaxFail}}
       \cup {In(k) : k \in {x \in Kinds \cap {"PONG"} : wsConnected}}
       \cup {Text(d) : d \in {e \in Docs : wsConnected}}
       \cup {[Text(d) EXCEPT !.oversize = TRUE] :
               d \in {e \in Docs : wsConnected /\ "OVERSIZE" \in Kinds}}

\* sendTXT may fail, but not so often that the error counter leaves its bound
SendResults(Outcomes) ==
  IF consecutiveErrors < MaxFail THEN Outcomes ELSE {TRUE}

\* ------------------------------------------------------------ actions

Finish(G) ==
  Commit([G EXCEPT !.sendOk = IF G.sent = <<>> THEN TRUE ELSE @,
                   !.fsOk = IF G.gpioLog = <<>> /\ G.lastIn.kind # "TEXT"
                            THEN TRUE ELSE @,
                   !.modeSince = IF G.pc = "setup" THEN 0
                                 ELSE IF G.mode # mode THEN now ELSE @,
                   !.syncRequestedAt =
                      IF G.sendOk /\ \E k \in 1..Len(G.sent) :
                                       G.sent[k].event = "request_state_sync"
                      THEN G.now ELSE @])

RamInit(G) ==
  [G EXCEPT !.mode = "ONLINE", !.offlineUntil = 0, !.lastMoistureCheck = 0,
            !.runtimeLoaded = FALSE, !.serverFailCount = 0, !.wifiFailCount = 0,
            !.lastHeartbeat = 0, !.lastMemoryCheck = 0, !.lastStatusReport = 0,
            !.consecutiveErrors = 0, !.lastStateSyncRequest = 0,
            !.pendingStateSync = FALSE, !.lastStateSync = 0, !.lastSend = 0,
            !.sensors = <<>>, !.aktuators = <<>>, !.now = 0, !.wsBegun = FALSE,
            !.wsConnected = FALSE, !.gpio = [p \in 0..MaxPin |-> FALSE],
            !.pc = "setup", !.authed = FALSE, !.syncRequestedAt = -1]

InitWith(Runtimes, States) ==
  /\ mode = "ONLINE" /\ offlineUntil = 0 /\ lastMoistureCheck = 0
  /\ runtimeLoaded = FALSE /\ serverFailCount = 0 /\ wifiFailCount = 0
  /\ lastHeartbeat = 0 /\ lastMemoryCheck = 0 /\ lastStatusReport = 0
  /\ consecutiveErrors = 0 /\ lastStateSyncRequest = 0
  /\ pendingStateSync = FALSE /\ lastStateSync = 0 /\ lastSend = 0
  /\ sensors = <<>> /\ aktuators = <<>> /\ now = 0
  /\ wifiUp \in BOOLEAN /\ wsBegun = FALSE /\ wsConnected = FALSE
  /\ gpio = [p \in 0..MaxPin |-> FALSE]
  /\ fsStates \in States /\ fsRuntime \in Runtimes
  /\ pc = "setup" /\ sent = <<>> /\ gpioLog = <<>> /\ fsLog = <<>>
  /\ authed = FALSE /\ lastIn = In("power") /\ sendOk = TRUE /\ fsOk = TRUE
  /\ modeSince = 0 /\ syncRequestedAt = -1

Setup ==
  /\ pc = "setup"
  /\ Finish(setup(Begin(In("setup"), TRUE, TRUE)))

SystemMonitoring(Heaps, Outcomes) ==
  /\ pc = "sysmon"
  /\ \E freeHeap \in Heaps, sOk \in SendResults(Outcomes) :
       Finish(basicSystemMonitoring(Begin(In("sysmon"), sOk, TRUE), freeHeap))

WebSocketLoop(Kinds, Docs, Outcomes, FsResults) ==
  /\ pc = "ws"
  /\ \E ev \in Events(Kinds, Docs) \cup {In("idle")}, sOk \in SendResults(Outcomes),
        fOk \in FsResults :
       LET G == Begin(ev, sOk, fOk) IN
       Finish([webSocketEvent(ClientState(G, ev), ev) EXCEPT !.pc = "monitor"])

MonitorConnection(Outcomes) ==
  /\ pc = "monitor"
  /\ \E sOk \in SendResults(Outcomes) :
       Finish([monitorConnection(Begin(In("monitor"), sOk, TRUE))
                 EXCEPT !.pc = "offline"])

CheckOfflineMode(Readings, FsResults) ==
  /\ pc = "offline"
  /\ \E value \in Readings, fOk \in FsResults :
       LET R == checkOfflineMode(Begin(Sample(value), TRUE, fOk),
                                 [p \in 0..MaxPin |-> value])
       IN Finish(IF R.pc = "restart" THEN R ELSE [R EXCEPT !.pc = "send"])

SendSensorData(Outcomes) ==
  /\ pc = "send"
  /\ \E dhtOk \in BOOLEAN, sOk \in SendResults(Outcomes) :
       LET G == Begin(In("send"), sOk, TRUE) IN
       Finish([IF G.runtimeLoaded /\ G.mode = "ONLINE"
               THEN sendSensorData(G, dhtOk) ELSE G
                 EXCEPT !.pc = "delay"])

\* The loop's delay, and whatever else passes between two ticks: the clock
\* moves on and the link may change.  Short steps are explored for the first
\* MaxFine short intervals of an uptime, long ones up to MaxNow.
Delay(Fine, Coarse) ==
  /\ pc = "delay"
  /\ \E d \in Fine \cup Coarse, w \in BOOLEAN :
       /\ d \in Fine => now < MaxFine * heartbeatInterval
       /\ now + d <= MaxNow
       /\ Finish([Begin(In("delay"), TRUE, TRUE)
                    EXCEPT !.now = Add32(@, d), !.wifiUp = w, !.pc = "sysmon"])

\* The same delay for an observation window that ends at Until.
Pause(Steps, Until) ==
  /\ pc = "delay"
  /\ \E d \in Steps, w \in BOOLEAN :
       /\ now + d <= Until
       /\ Finish([Begin(In("delay"), TRUE, TRUE)
                    EXCEPT !.now = Add32(@, d), !.wifiUp = w, !.pc = "sysmon"])

\* The same delay with the link left as it is.
Wait(Steps, Until) ==
  /\ pc = "delay"
  /\ \E d \in Steps :
       /\ now + d <= Until
       /\ Finish([Begin(In("delay"), TRUE, TRUE)
                    EXCEPT !.now = Add32(@, d), !.pc = "sysmon"])

\* The same delay late in a long uptime: the clock is within Span of the
\* point where millis() wraps around, before it or after it.
Late(Steps, Span) ==
  /\ pc = "delay"
  /\ \E d \in Steps, w \in BOOLEAN :
       /\ now >= Wrap - Span \/ now + d <= Span
       /\ Finish([Begin(In("delay"), TRUE, TRUE)
                    EXCEPT !.now = Add32(@, d), !.wifiUp = w, !.pc = "sysmon"])

\* Between two ticks the runtime configuration file is lost or damaged: a
\* write that was cut short, or flash wear.  What is left is a file that
\* loadRuntimeConfig rejects (missing, empty, oversized or not JSON).
StoreFault(Files) ==
  /\ pc = "delay"
  /\ \E f \in Files \ {fsRuntime} :
       Finish([Begin(In("fault"), TRUE, TRUE) EXCEPT !.fsRuntime = f])

Boot ==
  /\ pc = "restart"
  /\ Finish(RamInit(Begin(In("boot"), TRUE, TRUE)))

\* ------------------------------------------------------------ the mode machine

ModeKinds == {"CONNECTED", "DISCONNECTED", "ERROR", "OVERSIZE"}
ModeDocs == {Doc("auth_success"), Doc("heartbeat_ack")}

Init == InitWith({<<CfgPump>>}, {NoStates})

Next ==
  \/ Setup
  \/ SystemMonitoring({heapWarn}, {TRUE})
  \/ WebSocketLoop(ModeKinds, ModeDocs, {TRUE}, {TRUE})
  \/ MonitorConnection({TRUE})
  \/ CheckOfflineMode({40}, {TRUE})
  \/ SendSensorData({TRUE})
  \/ Delay({heartbeatInterval}, {wifiOfflineMs, serverOfflineMs})
  \/ Boot

Spec == Init /\ [][Next]_vars


\* ------------------------------------------------------------ commands and state sync

\* topologies the server pushes: two actuators, and one pin listed twice
CfgTwo ==
  [parses |-> TRUE, event |-> "runtime_config",
   sensors |-> << >>,
   aktuators |-> << [function |-> "pump", pin |-> 5, current_state |-> TRUE],
                    [function |-> "fan", pin |-> 12] >>]

CfgDup ==
  [parses |-> TRUE, event |-> "runtime_config",
   sensors |-> << >>,
   aktuators |-> << [function |-> "pump", pin |-> 5, current_state |-> FALSE],
                    [function |-> "pump", pin |-> 5, current_state |-> TRUE] >>]

Tuple(pin, state) == [pin |-> pin, function |-> "pump", state |-> state]
SyncTuples == {Tuple(5, TRUE), Tuple(5, FALSE), Tuple(13, TRUE)}

RECURSIVE SeqsUpTo(_, _)
SeqsUpTo(S, n) ==
  IF n = 0 THEN {<<>>}
  ELSE LET R == SeqsUpTo(S, n - 1) IN
       R \cup {Append(q, x) : q \in {r \in R : Len(r) = n - 1}, x \in S}

SyncDocs ==
  {[parses |-> TRUE, event |-> "actuator_state_sync", actuators |-> q] :
     q \in SeqsUpTo(SyncTuples, MaxTuples)}

SetDocs ==
  {[parses |-> TRUE, event |-> "set_aktuator", pin |-> p, state |-> st,
    require_confirmation |-> rc] :
     p \in {5, 13}, st \in BOOLEAN, rc \in BOOLEAN}

InitSync == InitWith({<<CfgPump>>}, {NoStates})

NextSync ==
  \/ Setup
  \/ SystemMonitoring({heapWarn}, {TRUE})
  \/ WebSocketLoop({"CONNECTED"}, SyncDocs \cup SetDocs \cup {CfgTwo, CfgDup},
                   {TRUE}, {TRUE})
  \/ MonitorConnection({TRUE})
  \/ CheckOfflineMode({40}, {TRUE})
  \/ SendSensorData({TRUE})
  \/ Delay({2 * sendInterval}, {})

SpecSync == InitSync /\ [][NextSync]_vars

\* ------------------------------------------------------------ properties

Offline == mode # "ONLINE"
AllPending(akts) == \A i \in 1..Len(akts) : akts[i].pendingStateSync
Running == pc # "restart"

\* C1: a monitorConnection call that observes the link down while mode is
\* ONLINE moves to OFFLINE_WIFI with offlineUntil = now + 30 min, one more
\* WiFi failure counted and every actuator pending sync; observed while mode
\* is not ONLINE it changes nothing; and in the run loop OFFLINE_WIFI is
\* entered in no other way.
C1_LinkDownEdge ==
  [][ /\ (pc = "monitor" /\ ~wifiUp /\ mode = "ONLINE") =>
           /\ mode' = "OFFLINE_WIFI"
           /\ offlineUntil' = now + wifiOfflineMs
           /\ wifiFailCount' = wifiFailCount + 1
           /\ AllPending(aktuators') /\ pendingStateSync'
      /\ (pc = "monitor" /\ ~wifiUp /\ mode # "ONLINE") =>
           UNCHANGED <<mode, offlineUntil, wifiFailCount, serverFailCount,
                       aktuators, pendingStateSync>>
      /\ (mode # "OFFLINE_WIFI" /\ mode' = "OFFLINE_WIFI") =>
           \/ pc = "setup"
           \/ pc = "monitor" /\ ~wifiUp /\ mode = "ONLINE" ]_vars

C1_Witness ==
  /\ pc = "offline" /\ mode = "OFFLINE_WIFI" /\ wsBegun /\ now > 0
  /\ modeSince = now /\ offlineUntil = now + wifiOfflineMs
  /\ wifiFailCount = 1 /\ Len(aktuators) > 0 /\ AllPending(aktuators)

\* C2: mode goes from ONLINE to OFFLINE_SERVER only on the disconnect that
\* makes serverFailCount 5, and then offlineUntil = now + 6 h.
C2_FifthFailureOnly ==
  [][ (Running /\ mode = "ONLINE" /\ mode' = "OFFLINE_SERVER") =>
        /\ lastIn'.kind = "DISCONNECTED"
        /\ serverFailCount' = maxServerFail
        /\ offlineUntil' = now + serverOfflineMs ]_vars

\* C3: in a degraded mode a restart deadline is set.
C3_DeadlineSet == (Running /\ Offline) => offlineUntil > 0

\* C4: once the offline check of a tick has run, the mode has not been
\* degraded for the whole offline period (30 min or 6 h) or longer.
C4_BoundedDegraded ==
  (pc = "send" /\ Offline) =>
     now - modeSince < (IF mode = "OFFLINE_WIFI" THEN wifiOfflineMs
                        ELSE serverOfflineMs)

\* C5 (as amended): mode returns from a degraded mode to ONLINE only in the
\* CONNECTED handler, which leaves serverFailCount = 0, consecutiveErrors = 0
\* and offlineUntil = 0; wifiFailCount is reset by the monitorConnection call
\* that observes the link up.
C5_OnlineOnlyOnConnected ==
  [][ /\ (Running /\ Offline /\ mode' = "ONLINE") =>
           /\ lastIn'.kind = "CONNECTED"
           /\ serverFailCount' = 0 /\ consecutiveErrors' = 0
           /\ offlineUntil' = 0
      /\ (pc = "monitor" /\ wifiUp) => wifiFailCount' = 0 ]_vars

C5_Witness ==
  /\ pc = "monitor" /\ lastIn.kind = "CONNECTED" /\ mode = "ONLINE"
  /\ modeSince = now /\ now > 0 /\ wifiFailCount = 1

\* C5 as stated: right after the transition all three counters are 0.
C5_AllCountersZero ==
  [][ (Running /\ Offline /\ mode' = "ONLINE") =>
        /\ lastIn'.kind = "CONNECTED"
        /\ wifiFailCount' = 0 /\ serverFailCount' = 0
        /\ consecutiveErrors' = 0 /\ offlineUntil' = 0 ]_vars

\* C6: on an open session mode is ONLINE, and telemetry, heartbeat and sync
\* requests are sent, only after auth_success was received on that session.
C6_OnlineOnlyAuthed ==
  (Running /\ wsConnected /\ ~authed) =>
     /\ mode # "ONLINE"
     /\ \A i \in 1..Len(sent) :
          sent[i].event \notin {"sensor_data", "heartbeat", "request_state_sync"}


\* a step of webSocket.loop() that hands a parsed frame of this event to
\* handleServerCommand
Handles(event) ==
  /\ pc = "ws" /\ lastIn'.kind = "TEXT" /\ ~lastIn'.oversize
  /\ lastIn'.doc.parses /\ lastIn'.doc.event = event

Handled(event) ==
  /\ pc = "monitor" /\ lastIn.kind = "TEXT" /\ ~lastIn.oversize
  /\ lastIn.doc.parses /\ lastIn.doc.event = event

Matched(akts, t) == FindAktuator(akts, t.pin) # 0

ConfirmFrame(pin, state, success) ==
  [event |-> "actuator_state_confirm", pin |-> pin, state |-> state,
   success |-> success]

\* one success confirmation per tuple that matches a configured actuator
RECURSIVE Confirms(_, _)
Confirms(akts, tuples) ==
  IF tuples = <<>> THEN <<>>
  ELSE (IF Matched(akts, Head(tuples))
        THEN << ConfirmFrame(Head(tuples).pin, Head(tuples).state, TRUE) >>
        ELSE <<>>) \o Confirms(akts, Tail(tuples))

\* the payload's last word on each pin
IsLastFor(tuples, k) ==
  \A j \in (k + 1)..Len(tuples) : tuples[j].pin # tuples[k].pin

Wrote(log, pin) == \E k \in 1..Len(log) : log[k][1] = pin

\* C7: a sync payload whose expected states all equal the local levels writes
\* no GPIO and no persisted state, clears pendingSync of the matched
\* actuators and sends one success confirmation per matched tuple, in every
\* mode in which the frame is received.
C7_IdempotentSync ==
  [][ LET tuples == lastIn'.doc.actuators IN
      ( /\ Handles("actuator_state_sync")
        /\ \A k \in 1..Len(tuples) :
             Matched(aktuators, tuples[k]) => tuples[k].state = gpio[tuples[k].pin] )
      => /\ gpio' = gpio /\ fsStates' = fsStates
         /\ gpioLog' = <<>> /\ fsLog' = <<>>
         /\ \A k \in 1..Len(tuples) :
              Matched(aktuators, tuples[k]) =>
                ~aktuators'[FindAktuator(aktuators, tuples[k].pin)].pendingStateSync
         /\ sent' = Confirms(aktuators, tuples) ]_vars

C9_ConfirmEveryMatch ==
  [][ LET tuples == lastIn'.doc.actuators IN
      Handles("actuator_state_sync") =>
        /\ sent' = Confirms(aktuators, tuples)
        /\ \A i \in 1..Len(aktuators) :
             (aktuators[i].pendingStateSync /\ ~aktuators'[i].pendingStateSync)
             => \E m \in 1..Len(sent') :
                  /\ sent'[m].event = "actuator_state_confirm"
                  /\ sent'[m].pin = aktuators[i].pin
                  /\ sent'[m].success ]_vars

CmdDocs ==
  {[parses |-> TRUE, event |-> "set_aktuator", pin |-> p, state |-> st,
    require_confirmation |-> rc] :
     p \in {-1, 5, 13, MaxPin + 1}, st \in BOOLEAN, rc \in BOOLEAN}
  \cup {Doc("auth_success"), CfgTwo,
        [parses |-> TRUE, event |-> "actuator_state_sync",
         actuators |-> << Tuple(5, TRUE) >>]}

InitCmd == InitWith({<<CfgPump>>}, {NoStates})

NextCmd ==
  \/ Setup
  \/ SystemMonitoring({heapWarn}, {TRUE})
  \/ WebSocketLoop({"CONNECTED", "ERROR", "OVERSIZE"}, CmdDocs, {TRUE}, {TRUE})
  \/ MonitorConnection({TRUE})
  \/ CheckOfflineMode({40}, {TRUE})
  \/ SendSensorData({TRUE})
  \/ Pause({2 * sendInterval}, MaxCmdTicks * 2 * sendInterval)

SpecCmd == InitCmd /\ [][NextCmd]_vars

\* the command names a pin outside 0..MaxPin or a pin without an actuator
Rejected(akts, doc) ==
  doc.pin < 0 \/ doc.pin > MaxPin \/ FindAktuator(akts, doc.pin) = 0

\* C11: a set_aktuator with require_confirmation whose pin is out of range or
\* has no configured actuator sends the failure confirmation (pin, requested
\* state, success = false), writes no GPIO and changes no registry, no
\* pending-sync flag and no persisted state, in whatever state it arrives.
C11_RejectedIsConfirmed ==
  [][ LET doc == lastIn'.doc IN
      ( /\ Handles("set_aktuator") /\ doc.require_confirmation
        /\ Rejected(aktuators, doc) )
      => /\ sent' = << ConfirmFrame(doc.pin, doc.state, FALSE) >>
         /\ gpioLog' = <<>> /\ fsLog' = <<>>
         /\ UNCHANGED <<gpio, sensors, aktuators, pendingStateSync,
                        fsStates, fsRuntime>> ]_vars

\* C12: a frame longer than 1024 bytes changes nothing: mode, counters,
\* clocks of the schedulers, registries, pending-sync flags, GPIO and
\* persisted records are as before, and nothing is sent.
C12_OversizeIgnored ==
  [][ (pc = "ws" /\ lastIn'.oversize) =>
        /\ UNCHANGED <<mode, offlineUntil, lastMoistureCheck, runtimeLoaded,
                       serverFailCount, wifiFailCount, lastHeartbeat,
                       lastMemoryCheck, lastStatusReport, consecutiveErrors,
                       lastStateSyncRequest, pendingStateSync, lastStateSync,
                       lastSend, sensors, aktuators, gpio, fsStates, fsRuntime,
                       wsConnected, authed>>
        /\ sent' = <<>> /\ gpioLog' = <<>> /\ fsLog' = <<>> ]_vars

C12_Witness ==
  /\ pc = "monitor" /\ lastIn.oversize /\ lastIn.doc.event = "set_aktuator"
  /\ lastIn.doc.pin = 5 /\ ~lastIn.doc.state /\ lastIn.doc.require_confirmation
  /\ mode = "ONLINE" /\ wsConnected /\ consecutiveErrors = 1
  /\ Len(aktuators) = 2 /\ aktuators[1].pendingStateSync /\ gpio[5]


\* ------------------------------------------------------------ local automation

\* a persisted topology with two armed probes, an unarmed one, a combined
\* temperature and humidity sensor, and a fan listed before two pumps
CfgGarden ==
  [parses |-> TRUE, event |-> "runtime_config",
   sensors |-> << [type |-> "soil_moisture", pin |-> 34, threshold |-> 30],
                  [type |-> "dht11", pin |-> 16],
                  [type |-> "soil_moisture", pin |-> 35, threshold |-> 20],
                  [type |-> "soil_moisture", pin |-> 36] >>,
   aktuators |-> << [function |-> "fan", pin |-> 12, current_state |-> TRUE],
                    [function |-> "pump", pin |-> 5, current_state |-> TRUE],
                    [function |-> "pump", pin |-> 13] >>]

\* a persisted topology with an armed probe and no pump
CfgNoPump ==
  [parses |-> TRUE, event |-> "runtime_config",
   sensors |-> << [type |-> "soil_moisture", pin |-> 34, threshold |-> 30] >>,
   aktuators |-> << [function |-> "fan", pin |-> 12, current_state |-> TRUE] >>]

InitAuto == InitWith({<<CfgPump>>, <<CfgGarden>>, <<CfgNoPump>>}, {NoStates})

NextAuto ==
  \/ Setup
  \/ SystemMonitoring({heapWarn}, {TRUE})
  \/ WebSocketLoop({"CONNECTED"}, {}, {TRUE}, {TRUE})
  \/ MonitorConnection({TRUE})
  \/ CheckOfflineMode({10, 22, 40}, {TRUE})
  \/ SendSensorData({TRUE})
  \/ Pause({moistureInterval}, MaxAutoTicks * moistureInterval)

SpecAuto == InitAuto /\ [][NextAuto]_vars

\* a step of checkOfflineMode() in which the 5-minute check is due
AutoTick ==
  /\ pc = "offline" /\ mode # "ONLINE"
  /\ ~(now >= offlineUntil /\ offlineUntil > 0)
  /\ now - lastMoistureCheck >= moistureInterval

\* the armed probes of a registry that read below their threshold
Dry(sens, value) ==
  {k \in 1..Len(sens) : /\ sens[k].type = "soil_moisture"
                         /\ sens[k].threshold > 0
                         /\ value < sens[k].threshold}

\* n activations of a pin: active, then inactive
RECURSIVE Cycles(_, _)
Cycles(pin, n) ==
  IF n = 0 THEN <<>>
  ELSE << <<pin, TRUE>>, <<pin, FALSE>> >> \o Cycles(pin, n - 1)

PersistedDry(value) ==
  /\ fsRuntime # <<>>
  /\ \E k \in 1..Len(fsRuntime[1].sensors) :
        LET s == fsRuntime[1].sensors[k] IN
        /\ s.type = "soil_moisture" /\ "threshold" \in DOMAIN s
        /\ s.threshold > 0 /\ value < s.threshold
  /\ \E k \in 1..Len(fsRuntime[1].aktuators) :
        fsRuntime[1].aktuators[k].function = "pump"

\* C14: on a device that booted with the link down (OFFLINE_WIFI from
\* setup, no network client started) and holds a persisted configuration
\* with an armed probe and a pump, a due 5-minute check with a reading below
\* the threshold activates the pump.
C14_OfflineBootWaters ==
  [][ (AutoTick /\ ~wsBegun /\ PersistedDry(lastIn'.doc.value)) =>
        \E k \in 1..Len(gpioLog') : gpioLog'[k][2] ]_vars


\* ------------------------------------------------------------ runtime configuration

\* entries of the sensors and aktuators arrays of a runtime_config payload
SensorEntries ==
  {[type |-> "dht11", pin |-> 16],
   [type |-> "dht11", pin |-> MaxPin + 1],
   [type |-> "soil_moisture", pin |-> 34, threshold |-> 30],
   [type |-> "ldr", pin |-> 35]}

AktuatorEntries ==
  {[function |-> "pump", pin |-> 5, current_state |-> TRUE],
   [function |-> "fan", pin |-> 12],
   [function |-> "fan", pin |-> MaxPin + 1]}

LoadDocs ==
  {[parses |-> TRUE, event |-> "runtime_config", sensors |-> ss, aktuators |-> aa] :
     ss \in SeqsUpTo(SensorEntries, MaxEntries),
     aa \in SeqsUpTo(AktuatorEntries, MaxEntries)}

\* a device without a persisted topology, with or without saved pin states
InitLoad == InitWith({<<>>}, {NoStates, 5 :> FALSE})

\* the server pushes a payload, asks for a reload, and pushes the payload again
NextLoad ==
  \/ Setup
  \/ SystemMonitoring({heapWarn}, {TRUE})
  \/ WebSocketLoop({"CONNECTED"},
                   {Doc("refresh_config")} \cup
                     (IF fsRuntime = <<>> THEN LoadDocs ELSE {fsRuntime[1]}),
                   {TRUE}, {TRUE, FALSE})
  \/ MonitorConnection({TRUE})
  \/ CheckOfflineMode({40}, {TRUE})
  \/ SendSensorData({TRUE})
  \/ Pause({heartbeatInterval}, MaxLoadTicks * heartbeatInterval)

SpecLoad == InitLoad /\ [][NextLoad]_vars

\* what one entry of the sensors array becomes in the registry
SensorsOf(s) ==
  LET pin == Get(s, "pin", 0) IN
  IF pin < 0 \/ pin > MaxPin THEN <<>>
  ELSE IF s.type = "dht11"
  THEN << [type |-> "dht_temperature", pin |-> pin, threshold |-> -1],
          [type |-> "dht_humidity", pin |-> pin, threshold |-> -1] >>
  ELSE << [type |-> s.type, pin |-> pin, threshold |-> Get(s, "threshold", -1)] >>

RECURSIVE Expand(_)
Expand(arr) == IF arr = <<>> THEN <<>> ELSE SensorsOf(Head(arr)) \o Expand(Tail(arr))

\* C15: the sensor registry of a loaded configuration holds, in the order of
\* the payload, two entries for every dht11 entry at a valid pin p, one of
\* kind dht_temperature and one of kind dht_humidity, both with pin p, and
\* one entry with its own type, pin and threshold for every other entry at a
\* valid pin.
C15_DualOutputSplit ==
  runtimeLoaded => (fsRuntime # <<>> /\ sensors = Expand(fsRuntime[1].sensors))

C15_Witness ==
  /\ Handled("runtime_config") /\ runtimeLoaded
  /\ lastIn.doc.sensors = << [type |-> "dht11", pin |-> 16],
                             [type |-> "soil_moisture", pin |-> 34, threshold |-> 30] >>
  /\ sensors = << [type |-> "dht_temperature", pin |-> 16, threshold |-> -1],
                  [type |-> "dht_humidity", pin |-> 16, threshold |-> -1],
                  [type |-> "soil_moisture", pin |-> 34, threshold |-> 30] >>

\* the content of the registries: kinds, pins and thresholds, in order
SensorContent(sens) ==
  [k \in 1..Len(sens) |-> [type |-> sens[k].type, pin |-> sens[k].pin,
                           threshold |-> sens[k].threshold]]
AktuatorContent(akts) ==
  [i \in 1..Len(akts) |-> [function |-> akts[i].function, pin |-> akts[i].pin]]

\* C16: saving again the payload that was saved and loaded before leaves the
\* sensor and actuator registries identical in content (number of entries,
\* kinds, pins, thresholds).
C16_ResaveSameRegistries ==
  [][ ( /\ Handles("runtime_config") /\ runtimeLoaded
        /\ fsRuntime = << lastIn'.doc >> )
      => /\ SensorContent(sensors') = SensorContent(sensors)
         /\ AktuatorContent(aktuators') = AktuatorContent(aktuators) ]_vars

\* the second save of a payload: the sync request of this tick shows that the
\* configuration was loaded before the frame arrived
C16_Witness ==
  /\ Handled("runtime_config") /\ fsOk /\ syncRequestedAt = now
  /\ fsRuntime = << lastIn.doc >>
  /\ Len(sensors) = 3 /\ Len(aktuators) = 2
  /\ aktuators[1].pin = 5 /\ aktuators[2].pin = 12


\* ------------------------------------------------------------ registry shape

\* the last entry of a payload's aktuators array that names the pin
IsLastListed(arr, k) ==
  \A j \in (k + 1)..Len(arr) : Get(arr[j], "pin", 0) # Get(arr[k], "pin", 0)

\* C17: the actuator registry holds at most one entry per pin, every
\* registered pin lies in 0..39, and the entry kept for a pin that the loaded
\* configuration lists more than once is the last one listed.
C17_OneAktuatorPerPin ==
  /\ \A i, j \in 1..Len(aktuators) :
        aktuators[i].pin = aktuators[j].pin => i = j
  /\ \A i \in 1..Len(aktuators) :
        aktuators[i].pin >= 0 /\ aktuators[i].pin <= MaxPin
  /\ (runtimeLoaded /\ fsRuntime # <<>>) =>
        LET arr == fsRuntime[1].aktuators IN
        \A i \in 1..Len(aktuators) :
          \E k \in 1..Len(arr) :
            /\ IsLastListed(arr, k)
            /\ Get(arr[k], "pin", 0) = aktuators[i].pin
            /\ Get(arr[k], "function", "null") = aktuators[i].function


\* ------------------------------------------------------------ sync request throttle

\* the request_state_sync frames among the frames of a step
SyncRequests(frames) ==
  {k \in 1..Len(frames) : frames[k].event = "request_state_sync"}

\* C18: two consecutive request_state_sync frames are at least 60 s apart:
\* a step sends at most one, and none earlier than 60 s after the previous
\* one of the same uptime.
C18_RequestsThrottled ==
  [][ LET n == Cardinality(SyncRequests(sent')) IN
      /\ n <= 1
      /\ (n = 1 /\ syncRequestedAt # -1) =>
            now' - syncRequestedAt >= stateSyncRequestInterval ]_vars


\* ------------------------------------------------------------ mode gates

GateDocs ==
  {Doc("auth_success"),
   [parses |-> TRUE, event |-> "actuator_state_sync",
    actuators |-> << Tuple(5, TRUE) >>],
   [parses |-> TRUE, event |-> "set_aktuator", pin |-> 13, state |-> TRUE,
    require_confirmation |-> TRUE]}

InitGate == InitWith({<<CfgPump>>}, {NoStates})

\* half-minute ticks after boot and after the first 5-minute check is due
NextGate ==
  \/ Setup
  \/ SystemMonitoring({heapWarn}, {TRUE})
  \/ WebSocketLoop({"CONNECTED"}, GateDocs, {TRUE}, {TRUE})
  \/ MonitorConnection({TRUE})
  \/ CheckOfflineMode({10, 40}, {TRUE})
  \/ SendSensorData({TRUE})
  \/ Pause({heartbeatInterval}, MaxGateTicks * heartbeatInterval)
  \/ Pause({moistureInterval}, moistureInterval + MaxGateTicks * heartbeatInterval)

SpecGate == InitGate /\ [][NextGate]_vars

\* C19: a step that hands a frame (auth, sensor_data, heartbeat,
\* request_state_sync, actuator_state_confirm) to the socket does so with
\* mode ONLINE, a sensor_data frame only with a runtime configuration
\* loaded; and checkOfflineMode does its periodic check (and any pin write)
\* only when mode is not ONLINE.
C19_ModeGates ==
  [][ /\ sent' # <<>> => mode' = "ONLINE"
      /\ \A k \in 1..Len(sent') :
           sent'[k].event = "sensor_data" => (runtimeLoaded /\ mode = "ONLINE")
      /\ \A k \in 1..Len(sent') :
           sent'[k].event \in {"heartbeat", "request_state_sync",
                               "actuator_state_confirm"} => mode = "ONLINE"
      /\ (pc = "offline" /\ (lastMoistureCheck' # lastMoistureCheck \/ gpioLog' # <<>>))
           => mode # "ONLINE" ]_vars

C19_Witness ==
  /\ pc = "send" /\ lastIn.kind = "offline" /\ gpioLog = Cycles(5, 1)
  /\ mode = "OFFLINE_WIFI" /\ wsConnected /\ authed
  /\ syncRequestedAt >= 0 /\ lastSend > 0 /\ lastHeartbeat > 0


\* C20: mode is OFFLINE_SERVER only with at least 5 session failures counted
\* since the last session establishment.
C20_SessionThreshold ==
  (Running /\ mode = "OFFLINE_SERVER") => serverFailCount >= maxServerFail

\* ------------------------------------------------------------ session loss

InitSession == InitWith({<<CfgPump>>}, {NoStates})

\* reconnect attempts 5 s apart during the first half minute of an uptime,
\* then one status-report period or one offline period; the WiFi link stays
\* as it was at boot
NextSession ==
  \/ Setup
  \/ SystemMonitoring({heapWarn}, {TRUE})
  \/ WebSocketLoop({"CONNECTED", "DISCONNECTED"}, {}, {TRUE}, {TRUE})
  \/ MonitorConnection({TRUE})
  \/ CheckOfflineMode({40}, {TRUE})
  \/ SendSensorData({TRUE})
  \/ Wait({sendInterval}, MaxSessionTicks * sendInterval)
  \/ Wait({statusInterval}, statusInterval + MaxSessionTicks * sendInterval)
  \/ Wait({serverOfflineMs}, MaxNow)
  \/ Boot

SpecSession == InitSession /\ [][NextSession]_vars

\* C21: once five consecutive disconnects have put the controller in
\* OFFLINE_SERVER with its 6-hour deadline, and no session has been
\* established since, the process restarts only when the clock has reached
\* offlineUntil; in particular the error-counter restart does not fire.
C21_RunsUntilDeadline ==
  [][ (/\ Running /\ mode = "OFFLINE_SERVER"
       /\ serverFailCount >= maxServerFail
       /\ offlineUntil = modeSince + serverOfflineMs
       /\ pc' = "restart")
      => now >= offlineUntil ]_vars

\* ------------------------------------------------------------ the offline timer

InitTimer == InitWith({<<CfgPump>>}, {NoStates})

\* 5-minute ticks after boot, and ticks one WiFi offline period later
NextTimer ==
  \/ Setup
  \/ SystemMonitoring({heapWarn}, {TRUE})
  \/ WebSocketLoop({"CONNECTED"}, {}, {TRUE}, {TRUE})
  \/ MonitorConnection({TRUE})
  \/ CheckOfflineMode({10, 40}, {TRUE})
  \/ SendSensorData({TRUE})
  \/ Pause({moistureInterval}, MaxTimerTicks * moistureInterval)
  \/ Pause({wifiOfflineMs}, wifiOfflineMs + MaxTimerTicks * moistureInterval)
  \/ Boot

SpecTimer == InitTimer /\ [][NextTimer]_vars

\* C22: when checkOfflineMode runs in a degraded mode with a deadline set and
\* now >= offlineUntil, it restarts the process without having evaluated the
\* periodic moisture check (no pin is written, lastMoistureCheck is not
\* moved); and it restarts the process in no other case.
C22_DeadlineRestartFirst ==
  [][ pc = "offline" =>
        /\ (mode # "ONLINE" /\ offlineUntil > 0 /\ now >= offlineUntil)
             => /\ pc' = "restart"
                /\ gpioLog' = <<>> /\ gpio' = gpio
                /\ lastMoistureCheck' = lastMoistureCheck
        /\ pc' = "restart"
             => (mode # "ONLINE" /\ offlineUntil > 0 /\ now >= offlineUntil) ]_vars

\* the deadline is reached at a tick where the periodic check is due, the
\* soil is dry and a pump is configured
C22_Witness ==
  /\ pc = "restart" /\ lastIn.kind = "offline" /\ lastIn.doc.value = 10
  /\ mode = "OFFLINE_WIFI" /\ now >= offlineUntil /\ offlineUntil > 0
  /\ Sub32(now, lastMoistureCheck) >= moistureInterval
  /\ FindPumpFrom(aktuators, 1) # 0 /\ Dry(sensors, 10) # {}
  /\ gpioLog = <<>>

\* C23: while the controller stays in a degraded mode whose deadline is set,
\* no step of the running process changes offlineUntil.
C23_DeadlineFixed ==
  [][ (/\ Running /\ mode # "ONLINE" /\ offlineUntil > 0
       /\ pc' # "restart" /\ mode' # "ONLINE")
      => offlineUntil' = offlineUntil ]_vars

\* C24: the step that handles a CONNECTED event hands exactly one frame to
\* the socket, the auth frame with the device token; and every other step
\* that hands over a frame finds the session already open, so no frame
\* precedes the auth frame of its session.
C24_AuthFirst ==
  [][ /\ (pc = "ws" /\ lastIn'.kind = "CONNECTED")
        => sent' = << [event |-> "auth", token |-> token] >>
      /\ (sent' # <<>> /\ lastIn'.kind # "CONNECTED") => wsConnected ]_vars

\* a reconnect: a state sync request went out on an earlier session
C24_Witness ==
  /\ pc = "monitor" /\ lastIn.kind = "CONNECTED" /\ sendOk
  /\ sent = << [event |-> "auth", token |-> token] >>
  /\ syncRequestedAt >= 0 /\ syncRequestedAt < now

\* ------------------------------------------------------------ repeated sync requests

RetryDocs ==
  {Doc("auth_success"),
   [parses |-> TRUE, event |-> "actuator_state_sync",
    actuators |-> << Tuple(5, TRUE) >>]}

\* a device with a persisted topology and a device that has none yet
InitRetry == InitWith({<<>>, <<CfgPump>>}, {NoStates})

NextRetry ==
  \/ Setup
  \/ SystemMonitoring({heapWarn}, {TRUE})
  \/ WebSocketLoop({"CONNECTED"}, RetryDocs, {TRUE}, {TRUE})
  \/ MonitorConnection({TRUE})
  \/ CheckOfflineMode({40}, {TRUE})
  \/ SendSensorData({TRUE})
  \/ Pause({heartbeatInterval}, MaxRetryTicks * heartbeatInterval)

\* loop() is called again and again: as long as the observation window
\* lasts, the run loop goes on from its current position to the next one
LoopGoesOn ==
  /\ pc # "restart"
  /\ pc = "delay" => now + heartbeatInterval <= MaxRetryTicks * heartbeatInterval
  /\ pc' \in {"setup", "sysmon", "ws", "monitor", "offline", "send", "delay"}

SpecRetry == InitRetry /\ [][NextRetry]_vars /\ WF_pc(LoopGoesOn)

RetryTimes == {k * heartbeatInterval : k \in 0..MaxRetryTicks}

\* a sync is outstanding on an open session at time t, with a throttle
\* interval of the observation window left
SyncOutstanding(t) ==
  /\ mode = "ONLINE" /\ wsConnected
  /\ pendingStateSync \/ HasUnsynced(aktuators)
  /\ now = t /\ t + stateSyncRequestInterval <= MaxRetryTicks * heartbeatInterval

\* the session or the mode is gone, or nothing is outstanding any more
SyncSettled ==
  \/ mode # "ONLINE" \/ ~wsConnected
  \/ ~pendingStateSync /\ ~HasUnsynced(aktuators)

RequestedWithin(t) ==
  syncRequestedAt > t /\ syncRequestedAt <= t + stateSyncRequestInterval

StoreDocs ==
  {Doc("auth_success"), Doc("refresh_config"), Doc("actuator_state_sync"), CfgPump,
   [parses |-> TRUE, event |-> "actuator_state_sync",
    actuators |-> << Tuple(5, TRUE) >>]}
  \cup {[parses |-> TRUE, event |-> "set_aktuator", pin |-> 5, state |-> st,
         require_confirmation |-> FALSE] : st \in BOOLEAN}

\* a device with a persisted topology and a device that has none yet
InitStore == InitWith({<<>>, <<CfgPump>>}, {NoStates})

\* half-minute ticks after boot and after the first 5-minute check is due;
\* every write to the store may fail
NextStore ==
  \/ Setup
  \/ SystemMonitoring({heapWarn}, {TRUE})
  \/ WebSocketLoop({"CONNECTED", "DISCONNECTED"}, StoreDocs, {TRUE}, {TRUE, FALSE})
  \/ MonitorConnection({TRUE})
  \/ CheckOfflineMode({10, 40}, {TRUE, FALSE})
  \/ SendSensorData({TRUE})
  \/ Pause({heartbeatInterval}, MaxStoreTicks * heartbeatInterval)
  \/ Pause({moistureInterval}, moistureInterval + MaxStoreTicks * heartbeatInterval)

SpecStore == InitStore /\ [][NextStore]_vars

\* C26: pendingStateSync is true after handling auth_success, after handling
\* any runtime_config push and after a refresh_config whose load succeeds;
\* and the only step of the running process that takes it from true to false
\* is the handling of an actuator_state_sync frame that carries a payload.
C26_FlagSetAndCleared ==
  [][ /\ (Handles("auth_success") \/ Handles("runtime_config")) => pendingStateSync'
      /\ (Handles("refresh_config") /\ loadRuntimeConfigOk(Globals))
           => pendingStateSync'
      /\ (Running /\ pendingStateSync /\ ~pendingStateSync')
           => (Handles("actuator_state_sync") /\ "actuators" \in DOMAIN lastIn'.doc)
    ]_vars

\* a push that could not be stored, on a device with nothing loaded, has set
\* the flag
C26_Witness ==
  /\ Handled("runtime_config") /\ ~fsOk /\ fsRuntime = <<>> /\ ~runtimeLoaded
  /\ pendingStateSync

\* ------------------------------------------------------------ bad frames

\* a frame that is not JSON, and a well-formed one
FrameDocs == {NoDoc, Doc("heartbeat_ack")}

\* two actuators and no sensor: no telemetry is due
InitFrames == InitWith({<<CfgTwo>>}, {NoStates})

\* frames 5 s apart during the first half minute of an uptime, then one
\* status-report period
NextFrames ==
  \/ Setup
  \/ SystemMonitoring({heapWarn}, {TRUE})
  \/ WebSocketLoop({"CONNECTED", "ERROR", "OVERSIZE"}, FrameDocs, {TRUE}, {TRUE})
  \/ MonitorConnection({TRUE})
  \/ CheckOfflineMode({40}, {TRUE})
  \/ SendSensorData({TRUE})
  \/ Wait({sendInterval}, MaxFrameTicks * sendInterval)
  \/ Wait({statusInterval}, statusInterval + MaxFrameTicks * sendInterval)
  \/ Boot

SpecFrames == InitFrames /\ [][NextFrames]_vars

\* C27: a text frame that is oversized or does not parse adds one to
\* consecutiveErrors.
C27_BadFrameCounts ==
  [][ (/\ pc = "ws" /\ lastIn'.kind = "TEXT"
       /\ lastIn'.oversize \/ ~lastIn'.doc.parses)
      => consecutiveErrors' = consecutiveErrors + 1 ]_vars

\* ------------------------------------------------------------ heartbeats

InitBeat == InitWith({<<CfgPump>>}, {NoStates})

\* half-minute ticks; the socket may refuse a heartbeat
NextBeat ==
  \/ Setup
  \/ SystemMonitoring({heapWarn}, {TRUE})
  \/ WebSocketLoop({"CONNECTED", "DISCONNECTED"}, {}, {TRUE}, {TRUE})
  \/ MonitorConnection({TRUE, FALSE})
  \/ CheckOfflineMode({40}, {TRUE})
  \/ SendSensorData({TRUE})
  \/ Wait({heartbeatInterval}, MaxBeatTicks * heartbeatInterval)

SpecBeat == InitBeat /\ [][NextBeat]_vars

\* C28: when monitorConnection finds a heartbeat due in mode ONLINE (link up)
\* and no heartbeat frame gets out, it adds one to consecutiveErrors and
\* leaves mode, serverFailCount and offlineUntil as they are.
C28_FailedHeartbeat ==
  [][ (/\ pc = "monitor" /\ mode = "ONLINE" /\ wifiUp
       /\ Sub32(now, lastHeartbeat) >= heartbeatInterval
       /\ ~(sent' # <<>> /\ sendOk'))
      => /\ consecutiveErrors' = consecutiveErrors + 1
         /\ mode' = "ONLINE"
         /\ serverFailCount' = serverFailCount
         /\ offlineUntil' = offlineUntil ]_vars

\* C29: a step of a set_aktuator command, a state sync, the local automation
\* or a runtime_config push whose write to the store fails leaves the
\* registries, the actuator states, the actuators' pending flags and
\* pendingStateSync as they were.
C29_FailedWriteNoChange ==
  [][ (/\ Running /\ pc \in {"ws", "offline"} /\ ~fsOk'
       /\ gpioLog' # <<>> \/ Handles("runtime_config"))
      => /\ aktuators' = aktuators /\ sensors' = sensors
         /\ pendingStateSync' = pendingStateSync ]_vars

\* ------------------------------------------------------------ faulty entries

\* entries that are complete, lack the pin, lack the kind, or name a pin
\* outside the range
FaultySensorEntries ==
  {[type |-> "soil_moisture", pin |-> 34, threshold |-> 30],
   [type |-> "soil_moisture", threshold |-> 30],
   [pin |-> 35],
   [type |-> "ldr", pin |-> MaxPin + 1]}

FaultyAktuatorEntries ==
  {[function |-> "pump", pin |-> 5, current_state |-> TRUE],
   [function |-> "fan", current_state |-> TRUE],
   [pin |-> 12],
   [function |-> "fan", pin |-> -1]}

EntryDocs ==
  {[parses |-> TRUE, event |-> "runtime_config", sensors |-> ss, aktuators |-> aa] :
     ss \in SeqsUpTo(FaultySensorEntries, MaxEntries),
     aa \in SeqsUpTo(FaultyAktuatorEntries, MaxEntries)}

InitEntries == InitWith({<<>>}, {NoStates})

NextEntries ==
  \/ Setup
  \/ SystemMonitoring({heapWarn}, {TRUE})
  \/ WebSocketLoop({"CONNECTED"}, EntryDocs, {TRUE}, {TRUE})
  \/ MonitorConnection({TRUE})
  \/ CheckOfflineMode({40}, {TRUE})
  \/ SendSensorData({TRUE})
  \/ Pause({heartbeatInterval}, MaxEntryTicks * heartbeatInterval)

SpecEntries == InitEntries /\ [][NextEntries]_vars

WellFormedSensor(e) ==
  "type" \in DOMAIN e /\ "pin" \in DOMAIN e /\ e.pin \in 0..MaxPin

WellFormedAktuator(e) ==
  "function" \in DOMAIN e /\ "pin" \in DOMAIN e /\ e.pin \in 0..MaxPin

\* C30: after a load the registries hold exactly the entries of the payload
\* that have their kind and a pin in 0..39, in the order of the payload, and
\* no pin other than those of such actuator entries has been driven.
C30_FaultyEntriesSkipped ==
  runtimeLoaded =>
    /\ fsRuntime # <<>>
    /\ sensors = Expand(SelectSeq(fsRuntime[1].sensors, WellFormedSensor))
    /\ AktuatorContent(aktuators) =
         AktuatorContent(SelectSeq(fsRuntime[1].aktuators, WellFormedAktuator))
    /\ \A p \in 0..MaxPin :
         gpio[p] => \E i \in 1..Len(fsRuntime[1].aktuators) :
                      /\ WellFormedAktuator(fsRuntime[1].aktuators[i])
                      /\ fsRuntime[1].aktuators[i].pin = p

\* ------------------------------------------------------------ reloads

ReloadDocs ==
  {Doc("refresh_config"), Doc("auth_success"), CfgTwo, CfgNoPump,
   [parses |-> TRUE, event |-> "set_aktuator", pin |-> 5, state |-> TRUE,
    require_confirmation |-> FALSE],
   [parses |-> TRUE, event |-> "set_aktuator", pin |-> 13, state |-> TRUE,
    require_confirmation |-> FALSE]}

\* a device without a topology file, with a damaged one, and with a good one;
\* with and without saved pin states
InitReload == InitWith({<<>>, <<NoDoc>>, <<CfgPump>>}, {NoStates, 5 :> TRUE})

NextReload ==
  \/ Setup
  \/ SystemMonitoring({heapWarn}, {TRUE})
  \/ WebSocketLoop({"CONNECTED"}, ReloadDocs, {TRUE}, {TRUE})
  \/ MonitorConnection({TRUE})
  \/ CheckOfflineMode({40}, {TRUE})
  \/ SendSensorData({TRUE})
  \/ Pause({heartbeatInterval}, MaxReloadTicks * heartbeatInterval)
  \/ StoreFault({<<>>, <<NoDoc>>})

SpecReload == InitReload /\ [][NextReload]_vars

\* C31: a refresh_config whose load fails leaves the registries (with every
\* actuator's state and pending flag), runtimeLoaded, the pins and
\* pendingStateSync as they were.
C31_FailedReloadNoChange ==
  [][ (Handles("refresh_config") /\ ~loadRuntimeConfigOk(Globals))
      => /\ sensors' = sensors /\ aktuators' = aktuators
         /\ runtimeLoaded' = runtimeLoaded
         /\ gpio' = gpio /\ gpioLog' = <<>>
         /\ pendingStateSync' = pendingStateSync ]_vars

\* the reload fails on a device whose pump was switched on by a command
C31_Witness ==
  /\ Handled("refresh_config") /\ fsRuntime \in {<<>>, <<NoDoc>>}
  /\ runtimeLoaded /\ Len(aktuators) = 1 /\ Len(sensors) = 1
  /\ aktuators[1].state /\ ~aktuators[1].pendingStateSync /\ gpio[5]

\* C32: handling a runtime_config push or a refresh_config writes nothing to
\* the saved actuator states: every pin has the same saved value, or none,
\* before and after.
C32_ReloadKeepsSavedStates ==
  [][ (Handles("runtime_config") \/ Handles("refresh_config"))
      => (fsStates' = fsStates /\ fsLog' = <<>>) ]_vars

\* a new topology without pin 5 has been loaded and the saved state of pin 5
\* is still there
C32_Witness ==
  /\ Handled("runtime_config") /\ lastIn.doc = CfgNoPump
  /\ fsRuntime = <<CfgNoPump>> /\ runtimeLoaded
  /\ FindAktuator(aktuators, 5) = 0
  /\ 5 \in DOMAIN fsStates /\ fsStates[5]

\* the frames that report or ask for state: sync request, heartbeat, telemetry
Reports(frames) ==
  {k \in 1..Len(frames) :
     frames[k].event \in {"request_state_sync", "heartbeat", "sensor_data"}}

\* C33: in a tick the channel events are handled first, then the connection
\* monitor runs, then the offline check (restart test, then automation), then
\* telemetry; and a sync request, heartbeat or telemetry frame is sent only
\* by a step that comes after the handling of the tick's channel events.
C33_OrderInTick ==
  [][ /\ pc = "ws" => pc' = "monitor"
      /\ pc = "monitor" => pc' = "offline"
      /\ pc = "offline" => pc' \in {"send", "restart"}
      /\ pc = "send" => pc' = "delay"
      /\ Reports(sent') # {} => pc \in {"monitor", "send"} ]_vars

\* the frames that carry a command
Commands == {"set_aktuator", "runtime_config", "refresh_config", "actuator_state_sync"}

\* C34: commands are dispatched only while the mode is ONLINE: a command
\* frame that arrives in OFFLINE_WIFI or OFFLINE_SERVER changes no actuator,
\* writes no pin, and leaves the registries and the pending-sync flag alone.
C34_CommandsOnlyOnline ==
  [][ (/\ pc = "ws"
       /\ mode # "ONLINE"
       /\ lastIn'.kind = "TEXT"
       /\ lastIn'.doc.event \in Commands)
      => /\ aktuators' = aktuators
         /\ sensors' = sensors
         /\ gpioLog' = <<>>
         /\ pendingStateSync' = pendingStateSync ]_vars

\* C35: a state-sync payload does not override an explicit command: for an
\* actuator whose pendingStateSync is false, a tuple for its pin with a
\* different expected state changes neither its state nor its pin.
C35_SyncKeepsCommanded ==
  [][ (Handles("actuator_state_sync") /\ "actuators" \in DOMAIN lastIn'.doc)
      => \A i \in 1..Len(aktuators) :
           (/\ ~aktuators[i].pendingStateSync
            /\ \E k \in 1..Len(lastIn'.doc.actuators) :
                 /\ lastIn'.doc.actuators[k].pin = aktuators[i].pin
                 /\ lastIn'.doc.actuators[k].state # aktuators[i].state)
           => /\ aktuators'[i].state = aktuators[i].state
              /\ \A w \in 1..Len(gpioLog') : gpioLog'[w][1] # aktuators[i].pin ]_vars

\* a step that loads the persisted topology: boot, a runtime_config push that
\* was stored, a refresh_config with a readable file
LoadStep ==
  \/ pc = "setup" /\ runtimeLoaded'
  \/ Handles("runtime_config") /\ fsRuntime' = <<lastIn'.doc>>
  \/ Handles("refresh_config") /\ fsRuntime # <<>> /\ fsRuntime[1].parses

\* C36: after a load every loaded actuator has the state and the pin level
\* that the configuration gives as current_state (false when absent), and
\* its pendingStateSync is true.
C36_LoadedAtCurrentState ==
  [][ LoadStep =>
        LET arr == Get(fsRuntime'[1], "aktuators", <<>>) IN
        /\ Len(aktuators') = Len(arr)
        /\ \A i \in 1..Len(arr) :
             LET currentState == Get(arr[i], "current_state", FALSE) IN
             /\ aktuators'[i].pin = arr[i].pin
             /\ aktuators'[i].state = currentState
             /\ gpio'[arr[i].pin] = currentState
             /\ aktuators'[i].pendingStateSync ]_vars

\* C37: between operations every configured actuator's state equals the
\* level last written to its pin, whatever loads, commands, sync payloads and
\* automation ticks came before, also when the topology lists a pin twice.
C37_StateIsPinLevel ==
  \A i \in 1..Len(aktuators) : aktuators[i].state = gpio[aktuators[i].pin]

\* C38: an actuator whose pendingStateSync is false has the state the server
\* gave last: a step that handles neither a set_aktuator nor a state-sync
\* frame (automation tick, load, disconnect, monitor) leaves no actuator with
\* pendingStateSync false and a state other than the one it had.
C38_UnflaggedIsServerState ==
  [][ ~(Handles("set_aktuator") \/ Handles("actuator_state_sync"))
      => \A i \in 1..Len(aktuators') :
           ~aktuators'[i].pendingStateSync
           => (i <= Len(aktuators) /\ aktuators[i] = aktuators'[i]) ]_vars

\* ------------------------------------------------------------ link and session both failing

InitDrop == InitWith({<<CfgPump>>}, {NoStates})

\* half-minute ticks after boot; the link comes and goes and the client
\* reports one failed connection after the other
NextDrop ==
  \/ Setup
  \/ SystemMonitoring({heapWarn}, {TRUE})
  \/ WebSocketLoop({"CONNECTED", "DISCONNECTED"}, {}, {TRUE}, {TRUE})
  \/ MonitorConnection({TRUE})
  \/ CheckOfflineMode({40}, {TRUE})
  \/ SendSensorData({TRUE})
  \/ Pause({heartbeatInterval}, MaxDropTicks * heartbeatInterval)

SpecDrop == InitDrop /\ [][NextDrop]_vars

\* C39: no step leads from one degraded mode to the other: a step that
\* leaves OFFLINE_WIFI or OFFLINE_SERVER ends in ONLINE (by a new session or
\* by the restart); and a DISCONNECTED event handled in OFFLINE_WIFI changes
\* neither the mode nor the deadline.
C39_NoDegradedToDegraded ==
  [][ /\ (mode \in {"OFFLINE_WIFI", "OFFLINE_SERVER"} /\ mode' # mode)
         => mode' = "ONLINE"
      /\ (mode = "OFFLINE_WIFI" /\ pc = "ws" /\ lastIn'.kind = "DISCONNECTED")
         => (mode' = mode /\ offlineUntil' = offlineUntil) ]_vars

\* ------------------------------------------------------------ the clock wraps around

\* ten-minute ticks, and the part of the uptime they cover on either side of
\* the wrap-around of millis()
WrapStep == 2 * moistureInterval
WrapSpan == MaxWrapTicks * WrapStep

InitWrap == InitWith({<<CfgPump>>}, {NoStates})

\* a device that has been up for almost 2^32 ms, or has just booted; the
\* link comes and goes
NextWrap ==
  \/ Setup
  \/ SystemMonitoring({heapWarn}, {TRUE})
  \/ WebSocketLoop({"CONNECTED"}, {}, {TRUE}, {TRUE})
  \/ MonitorConnection({TRUE})
  \/ CheckOfflineMode({40}, {TRUE})
  \/ SendSensorData({TRUE})
  \/ Pause({Wrap - WrapSpan}, Wrap - WrapSpan)
  \/ Late({WrapStep}, WrapSpan)
  \/ Boot

SpecWrap == InitWrap /\ [][NextWrap]_vars

\* the time a degraded mode lasts before the restart
OfflineSpan == IF mode = "OFFLINE_WIFI" THEN wifiOfflineMs ELSE serverOfflineMs

\* C40: with the clock and offlineUntil taken modulo 2^32 ms, checkOfflineMode in
\* a degraded mode restarts the device exactly when the mode has lasted its
\* 30 minutes or 6 hours, at whatever uptime the mode was entered: not
\* earlier, and not never because the deadline came out as 0.
C40_RestartAfterSpan ==
  [][ (pc = "offline" /\ mode # "ONLINE")
      => (pc' = "restart" <=> Sub32(now, modeSince) >= OfflineSpan) ]_vars

====
